---- MODULE Spec2Model ----
(***************************************************************************)
(* The remote attestation demo server (attest/demo/server.go, rpc.go):     *)
(* the registry of clientInfo records behind one mutex and the four RPC    *)
(* handlers activationGetChallenge, activate, getNonce and attest.         *)
(*                                                                         *)
(* Byte strings are sequences of small integers.  The bytes produced by    *)
(* the k-th successful read of the random source are modelled as the byte  *)
(* k repeated, so two different draws never coincide (an ideal random      *)
(* source); a failed read leaves the zero-filled buffer of make([]byte,n). *)
(* A run serves at most MaxRequests requests, each on a goroutine of its   *)
(* own; the handler body between Lock and the deferred Unlock is one step. *)
(***************************************************************************)
EXTENDS Integers, Sequences, FiniteSets, TLC

VARIABLES
    state,      \* server.state: the list of clientInfo records
    lock,       \* server.lock: 0 when free, else the goroutine holding it
    pc,         \* per goroutine: position in its handler
    handler,    \* per goroutine: the mux path of the handler it runs
    rd,         \* per goroutine: the decoded requestData (local rd)
    resp,       \* per goroutine: what the handler wrote to w
    drawn,      \* number of successful reads of the random source so far
    issued,     \* nonces returned to callers so far (history)
    consumed,   \* AIK blobs whose stored nonce has judged a quote since it was stored
    served,     \* number of requests accepted so far
    local,      \* per goroutine: the locals c, ek, secret and ec of its handler
    certsPath,  \* the directories NewEKVerifier is given, as they are on disk
    ekVerifier, \* what NewEKVerifier returned
    ekOut       \* the last call of VerifyEKCert and what became of it

ekVars == <<certsPath, ekVerifier, ekOut>>

vars == <<state, lock, pc, handler, rd, resp, drawn, issued, consumed, served,
          local, ekVars>>

----------------------------------------------------------------------------
(* Bounds of the model *)

NumWorkers == 2
MaxRequests == 3
NumBlobs == 2
MaxDraws == 2
SecretLen == 2
NumEKs == 1
MaxFiles == 1

(* Program constants *)

NonceLen == 32
StatusOK == 200
StatusBadRequest == 400
StatusInternalServerError == 500

Workers == 1..NumWorkers

\* AIK public blobs: <<1>>, <<1, 2>>, ... (each a proper prefix of the next)
Blobs == {[i \in 1..n |-> i] : n \in 1..NumBlobs}

\* attest.TPMVersion values a request may carry: 0 (agnostic), 2 (TPM 2.0)
TPMVersions == {0, 2}
SupportedVersions == {1, 2}

PathChallenge == "/get/activation-challenge"
PathActivate == "/do/activation"
PathNonce == "/get/attest-nonce"
PathAttest == "/do/attest"
Paths == {PathChallenge, PathActivate, PathNonce, PathAttest}

----------------------------------------------------------------------------
(* Byte strings *)

\* bytes.Equal: same length and same bytes (nil and empty are equal)
BytesEqual(a, b) ==
    /\ Len(a) = Len(b)
    /\ \A i \in 1..Len(a) : a[i] = b[i]

\* make([]byte, n)
Zero(n) == [i \in 1..n |-> 0]

\* io.ReadFull(rand.Reader, buf): the k-th draw fills the first got bytes
ReadFull(n, k, got) == [i \in 1..n |-> IF i <= got THEN k ELSE 0]

\* outcomes of one read of n bytes: nothing read (error) or all read
ReadCounts(n) == {0, n}

----------------------------------------------------------------------------
(* Records *)

NoResults ==
    [present |-> FALSE, Succeeded |-> FALSE, SignatureMismatch |-> FALSE,
     PcrDigest |-> <<>>, PcrDigestMismatch |-> FALSE, NonceMismatch |-> FALSE]

AttestationParameters(pub, createData) == [Public |-> pub, CreateData |-> createData]

\* clientInfo{AIK: attest.AttestationParameters{Public: pub}}
NewClientInfo(pub) ==
    [AIK |-> AttestationParameters(pub, <<>>), EK |-> 0, ActivationSecret |-> <<>>,
     Activated |-> FALSE, Nonce |-> <<>>, AttestResults |-> NoResults]

NoQuote == [ExtraData |-> <<>>, PCRDigest |-> <<>>]

\* a signature is identified by the key that made it over the quote bytes sent
NoSignature == [signer |-> <<>>]
NoEKPem == [pem |-> FALSE, key |-> 0]
NoPCRs == <<>>

\* the zero requestData
ZeroRequest ==
    [ok |-> TRUE, TPMVersion |-> 0, AIK |-> AttestationParameters(<<>>, <<>>),
     EKPem |-> NoEKPem, DecryptedCredential |-> <<>>,
     Quote |-> [Quote |-> NoQuote, Signature |-> NoSignature], PCRs |-> NoPCRs]

NoCredential == [ek |-> 0, aik |-> <<>>, wraps |-> <<>>]

\* nothing written to the ResponseWriter
NoResponse == [status |-> 0, Nonce |-> <<>>, ActivationChallenge |-> NoCredential]

\* the locals of a handler that has not assigned them yet: c is the index
\* of the record the pointer c refers to, 0 for none
NoLocals == [c |-> 0, k |-> 0, ek |-> 0, secret |-> <<>>, ec |-> NoCredential]

\* http.Error(w, ..., code)
HttpError(code) == [NoResponse EXCEPT !.status = code]

\* json.NewEncoder(w).Encode(responseData{...}) with the implicit 200
Encode(nonce, ec) == [status |-> StatusOK, Nonce |-> nonce, ActivationChallenge |-> ec]

----------------------------------------------------------------------------
(* Registry *)

\* the scan of server.clientInfo: index of the first record whose AIK.Public
\* equals pub, 0 when there is none
RECURSIVE FindFrom(_, _, _)
FindFrom(st, pub, i) ==
    IF i > Len(st) THEN 0
    ELSE IF BytesEqual(st[i].AIK.Public, pub) THEN i
    ELSE FindFrom(st, pub, i + 1)

\* a lookup by a derived identifier (the first byte of the blob) instead of
\* the whole blob
Find_byFirstByte(st, pub) ==
    IF \E i \in 1..Len(st) : SubSeq(st[i].AIK.Public, 1, 1) = SubSeq(pub, 1, 1)
    THEN CHOOSE i \in 1..Len(st) :
            /\ SubSeq(st[i].AIK.Public, 1, 1) = SubSeq(pub, 1, 1)
            /\ \A j \in 1..(i - 1) : SubSeq(st[j].AIK.Public, 1, 1) # SubSeq(pub, 1, 1)
    ELSE 0

Find(st, pub) == FindFrom(st, pub, 1)

\* server.clientInfo: the registry after the call
clientInfoState(st, pub) ==
    IF Find(st, pub) # 0 THEN st ELSE Append(st, NewClientInfo(pub))

\* a lookup that hands out the last record of the registry for a known blob
clientInfo_last(st, pub) ==
    IF Find(st, pub) # 0 THEN Len(st) ELSE Len(st) + 1

\* server.clientInfo: the index of the record the returned pointer refers to
clientInfo(st, pub) ==
    IF Find(st, pub) # 0 THEN Find(st, pub) ELSE Len(st) + 1

----------------------------------------------------------------------------
(* rpc.go *)

\* requestData.EKPublic: pem.Decode returns a nil block when EKPem holds no
\* PEM data and b.Bytes then dereferences nil (the handler panics);
\* x509.ParsePKCS1PublicKey fails on bytes that are no PKCS#1 key
EKPublic(r) ==
    IF ~r.EKPem.pem THEN [panic |-> TRUE, err |-> FALSE, ek |-> 0]
    ELSE IF r.EKPem.key = 0 THEN [panic |-> FALSE, err |-> TRUE, ek |-> 0]
    ELSE [panic |-> FALSE, err |-> FALSE, ek |-> r.EKPem.key]

----------------------------------------------------------------------------
(* Collaborators outside the demo package *)

\* attest.ActivationParameters.Generate: a fresh secret and the credential
\* wrapping it for (EK, AIK); an error for an unsupported TPM version
Generate(ap, k) ==
    IF ap.TPMVersion \notin SupportedVersions
    THEN [err |-> TRUE, secret |-> <<>>, ec |-> NoCredential]
    ELSE LET secret == ReadFull(SecretLen, k, SecretLen)
         IN [err |-> FALSE, secret |-> secret,
             ec |-> [ek |-> ap.EK, aik |-> ap.AIK.Public, wraps |-> secret]]

\* the digest a quote commits to: the reference register values concatenated
\* in index order (the hash is taken to be injective)
RECURSIVE PCRDigest(_)
PCRDigest(pcrs) ==
    IF pcrs = <<>> THEN <<>> ELSE Head(pcrs) \o PCRDigest(Tail(pcrs))

\* verifier.VerifyQuote: signature, nonce binding and register digest checks
VerifyQuote(tpmVersion, public, quote, signature, pcrs, nonce) ==
    IF tpmVersion \notin SupportedVersions
    THEN [err |-> TRUE, res |-> NoResults]
    ELSE LET sigBad == ~BytesEqual(signature.signer, public)
             nonceBad == ~BytesEqual(quote.ExtraData, nonce)
             digestBad == ~BytesEqual(quote.PCRDigest, PCRDigest(pcrs))
         IN [err |-> FALSE,
             res |-> [present |-> TRUE,
                      Succeeded |-> ~sigBad /\ ~nonceBad /\ ~digestBad,
                      SignatureMismatch |-> sigBad,
                      PcrDigest |-> PCRDigest(pcrs),
                      PcrDigestMismatch |-> digestBad,
                      NonceMismatch |-> nonceBad]]

----------------------------------------------------------------------------
(* server.go: what each handler does to the registry and writes to w *)

\* the record is fetched (and created) before the request is validated
challengeRejected_created(st, r, response) ==
    [state |-> clientInfoState(st, r.AIK.Public), resp |-> response, draws |-> 0]

\* an early return of activationGetChallenge: nothing stored
challengeRejected(st, r, response) ==
    [state |-> st, resp |-> response, draws |-> 0]

\* the activated flag survives a new challenge
challengeStore_keepsActivated(c, r, ek, secret) ==
    [c EXCEPT !.AIK = r.AIK, !.ActivationSecret = secret, !.EK = ek]

\* activationGetChallenge, "Store the secret & update the state in the server"
challengeStore(c, r, ek, secret) ==
    [c EXCEPT !.AIK = r.AIK, !.ActivationSecret = secret, !.EK = ek,
              !.Activated = FALSE]

\* the body of activationGetChallenge once the lock is held; k is the index
\* of the random draw Generate makes
activationGetChallengeStep(st, r, k) ==
    IF ~r.ok THEN challengeRejected(st, r, HttpError(StatusInternalServerError))
    ELSE LET e == EKPublic(r) IN
    IF e.panic THEN challengeRejected(st, r, NoResponse)
    ELSE IF e.err THEN challengeRejected(st, r, HttpError(StatusInternalServerError))
    ELSE LET g == Generate([TPMVersion |-> r.TPMVersion, EK |-> e.ek, AIK |-> r.AIK], k) IN
    IF g.err THEN challengeRejected(st, r, HttpError(StatusInternalServerError))
    ELSE LET st1 == clientInfoState(st, r.AIK.Public)
             i == clientInfo(st, r.AIK.Public)
         IN [state |-> [st1 EXCEPT ![i] = challengeStore(st1[i], r, e.ek, g.secret)],
             resp |-> Encode(<<>>, g.ec),
             draws |-> 1]

\* only the bytes the caller supplied are compared
activateAccepts_prefix(c, r) ==
    /\ Len(c.ActivationSecret) # 0
    /\ Len(r.DecryptedCredential) <= Len(c.ActivationSecret)
    /\ \A i \in 1..Len(r.DecryptedCredential) :
          c.ActivationSecret[i] = r.DecryptedCredential[i]

\* the check that a challenge was requested is missing
activateAccepts_noLenCheck(c, r) ==
    BytesEqual(c.ActivationSecret, r.DecryptedCredential)

\* the condition of activate under which activation succeeds
activateAccepts(c, r) ==
    ~(Len(c.ActivationSecret) = 0
      \/ ~BytesEqual(c.ActivationSecret, r.DecryptedCredential))

\* a failed attempt consumes the pending secret
activateStore_clearsSecret(c, accepted) ==
    IF accepted THEN [c EXCEPT !.Activated = TRUE]
    ELSE [c EXCEPT !.ActivationSecret = <<>>]

\* a failed attempt deactivates the record
activateStore_deactivates(c, accepted) ==
    [c EXCEPT !.Activated = accepted]

\* what activate does to the record
activateStore(c, accepted) ==
    IF accepted THEN [c EXCEPT !.Activated = TRUE] ELSE c

\* the body of activate once the lock is held
activateStep(st, r) ==
    IF ~r.ok THEN [state |-> st, resp |-> HttpError(StatusInternalServerError)]
    ELSE LET st1 == clientInfoState(st, r.AIK.Public)
             i == clientInfo(st, r.AIK.Public)
             accepted == activateAccepts(st1[i], r)
         IN [state |-> [st1 EXCEPT ![i] = activateStore(st1[i], accepted)],
             resp |-> IF accepted THEN Encode(<<>>, NoCredential)
                      ELSE HttpError(StatusBadRequest)]

\* an outstanding nonce is kept when a new one is requested
getNonceStore_keepsOld(c, n) ==
    IF Len(c.Nonce) = 0 THEN [c EXCEPT !.Nonce = n] ELSE c

\* what getNonce does to the record
getNonceStore(c, n) == [c EXCEPT !.Nonce = n]

\* the body of getNonce once the lock is held; the k-th draw reads got bytes
getNonceStep(st, r, k, got) ==
    IF ~r.ok THEN [state |-> st, resp |-> HttpError(StatusInternalServerError),
                   draws |-> 0]
    ELSE LET st1 == clientInfoState(st, r.AIK.Public)
             i == clientInfo(st, r.AIK.Public)
             n == ReadFull(NonceLen, k, got)
         IN [state |-> [st1 EXCEPT ![i] = getNonceStore(st1[i], n)],
             resp |-> Encode(n, NoCredential),
             draws |-> IF got > 0 THEN 1 ELSE 0]

\* what attest does to the record
\* a handler that records a verification outcome only when it is a success
attestStore_onlySuccess(c, results) ==
    IF results.Succeeded THEN [c EXCEPT !.AttestResults = results] ELSE c

attestStore(c, results) == [c EXCEPT !.AttestResults = results]

\* the body of attest once the lock is held
attestStep(st, r) ==
    IF ~r.ok THEN [state |-> st, resp |-> HttpError(StatusInternalServerError),
                   judged |-> FALSE]
    ELSE LET st1 == clientInfoState(st, r.AIK.Public)
             i == clientInfo(st, r.AIK.Public)
             v == VerifyQuote(r.TPMVersion, r.AIK.Public, r.Quote.Quote,
                              r.Quote.Signature, r.PCRs, st1[i].Nonce)
         IN IF v.err
            THEN [state |-> st1, resp |-> HttpError(StatusInternalServerError),
                  judged |-> FALSE]
            ELSE [state |-> [st1 EXCEPT ![i] = attestStore(st1[i], v.res)],
                  resp |-> Encode(<<>>, NoCredential),
                  judged |-> TRUE]

----------------------------------------------------------------------------
(* Requests a client may send *)

\* endorsement keys a client may present
EKs == 1..NumEKs

\* EKPem: no PEM block, a PEM block that is no PKCS#1 key, a PEM-encoded key
EKPems == {NoEKPem, [pem |-> TRUE, key |-> 0]} \cup {[pem |-> TRUE, key |-> e] : e \in EKs}

\* proof-of-origin data accompanying the AIK public blob
CreateDatas == {<<7>>}

\* the blobs requests carry: those of the records held and, clients being
\* interchangeable, the shortest blob no record holds yet
Known(st) == {st[i].AIK.Public : i \in 1..Len(st)}
BlobsFor(st) ==
    Known(st) \cup {p \in Blobs \ Known(st) :
                       \A q \in Blobs \ Known(st) : Len(p) <= Len(q)}

\* a body json.Decoder cannot decode
BadBody == [ZeroRequest EXCEPT !.ok = FALSE]

ChallengeRequests(st) ==
    {BadBody} \cup
    {[ZeroRequest EXCEPT !.TPMVersion = v, !.AIK = AttestationParameters(p, cd),
                         !.EKPem = e] :
        v \in TPMVersions, p \in BlobsFor(st), cd \in CreateDatas, e \in EKPems}

\* the secret of draw k, the secret cut short by a byte, and the secret with
\* its last byte changed
Secret(k) == ReadFull(SecretLen, k, SecretLen)
Credentials(n) ==
    {<<>>} \cup {Secret(k) : k \in 1..n}
           \cup {SubSeq(Secret(k), 1, SecretLen - 1) : k \in 1..n}
           \cup {[Secret(k) EXCEPT ![SecretLen] = 0] : k \in 1..n}

ActivateRequests(st, n) ==
    {BadBody} \cup
    {[ZeroRequest EXCEPT !.AIK = AttestationParameters(p, <<>>),
                         !.DecryptedCredential = s] :
        p \in BlobsFor(st), s \in Credentials(n)}

NonceRequests(st) ==
    {BadBody} \cup
    {[ZeroRequest EXCEPT !.AIK = AttestationParameters(p, <<>>)] : p \in BlobsFor(st)}

\* reference register values: one register, two possible values
PCRMaps == {<<(<<1>>)>>, <<(<<2>>)>>}
GoodPCRs == <<(<<1>>)>>

\* nonces a quote may be built over: none, the zero buffer, any draw so far
QuoteNonces(n) ==
    {<<>>, Zero(NonceLen)} \cup {ReadFull(NonceLen, k, NonceLen) : k \in 1..n}

\* a quote over nonce x and the registers GoodPCRs, signed by the key signer
MakeQuote(x, signer) ==
    LET q == [ExtraData |-> x, PCRDigest |-> PCRDigest(GoodPCRs)]
    IN [Quote |-> q, Signature |-> [signer |-> signer]]

\* what a client gets wrong at most one thing at a time: the signing key or
\* the reference registers
QuoteFaults == {"none", "signer", "pcrs"}
OtherBlob(p) == CHOOSE q \in Blobs \cup {<<>>} : q # p
OtherPCRs(m) == CHOOSE q \in PCRMaps : q # m

AttestRequests(st, n) ==
    {BadBody} \cup
    {[ZeroRequest EXCEPT !.TPMVersion = 0, !.AIK = AttestationParameters(p, <<>>)] :
        p \in BlobsFor(st)} \cup
    {[ZeroRequest EXCEPT !.TPMVersion = 2, !.AIK = AttestationParameters(p, <<>>),
                         !.Quote = MakeQuote(x, IF f = "signer" THEN OtherBlob(p) ELSE p),
                         !.PCRs = IF f = "pcrs" THEN OtherPCRs(GoodPCRs) ELSE GoodPCRs] :
        p \in BlobsFor(st), x \in QuoteNonces(n), f \in QuoteFaults}

----------------------------------------------------------------------------
(* verifier: the EK certificate verifier and its pools of parent           *)
(* certificates                                                            *)

\* a parsed certificate: serial number, subject and issuer common names,
\* the issuer's organization names, whether its validity has lapsed, and
\* Raw, the bytes it was parsed from: its strict DER encoding or the
\* encoding the parser accepts with non-fatal errors
NilCert ==
    [serial |-> 0, subject |-> "", issuer |-> "", org |-> <<>>, expired |-> FALSE,
     Raw |-> "strict"]

RootCert ==
    [serial |-> 1, subject |-> "Root", issuer |-> "Root",
     org |-> <<"Vendor">>, expired |-> FALSE,
     Raw |-> "strict"]

IntermediateCert ==
    [serial |-> 2, subject |-> "Intermediate", issuer |-> "Root",
     org |-> <<"Vendor">>, expired |-> FALSE,
     Raw |-> "strict"]

EKViaIntermediate ==
    [serial |-> 3, subject |-> "EK-A", issuer |-> "Intermediate",
     org |-> <<"Vendor", "TPM">>, expired |-> FALSE,
     Raw |-> "strict"]

EKViaRoot ==
    [serial |-> 4, subject |-> "EK-B", issuer |-> "Root",
     org |-> <<"Vendor">>, expired |-> FALSE,
     Raw |-> "strict"]

EKUnknownIssuer ==
    [serial |-> 5, subject |-> "EK-C", issuer |-> "Elsewhere",
     org |-> <<>>, expired |-> FALSE,
     Raw |-> "strict"]

\* the root's predecessor of the same name, no longer valid
ExpiredRootCert ==
    [serial |-> 7, subject |-> "Root", issuer |-> "Root",
     org |-> <<"Vendor">>, expired |-> TRUE,
     Raw |-> "strict"]

EKExpired ==
    [serial |-> 6, subject |-> "EK-D", issuer |-> "Root",
     org |-> <<"Vendor">>, expired |-> TRUE,
     Raw |-> "strict"]

\* the bytes of a file or of a request: the DER encoding of a certificate,
\* a DER encoding the parser accepts with non-fatal errors, a PEM block
\* around a certificate, or bytes that are no certificate at all
DER(c) == [enc |-> "der", cert |-> c, flaw |-> FALSE]
DERNonFatal(c) == [enc |-> "der", cert |-> c, flaw |-> TRUE]
PEM(c) == [enc |-> "pem", cert |-> c, flaw |-> FALSE]
Junk == [enc |-> "junk", cert |-> NilCert, flaw |-> FALSE]

\* x509.ParseCertificate: a certificate and no error, a certificate and
\* non-fatal errors, or no certificate and a fatal error
ParseCertificate(d) ==
    IF d.enc = "der"
    THEN IF d.flaw THEN [c |-> [d.cert EXCEPT !.Raw = "lax"], err |-> "nonfatal"]
         ELSE [c |-> d.cert, err |-> ""]
    ELSE [c |-> NilCert, err |-> "fatal"]

\* x509.IsFatal
IsFatal(err) == err = "fatal"

\* Certificate.Equal: the same Raw bytes; the bytes are one of the two
\* encodings of the certificate of that serial number
Equal(c, other) == c.serial = other.serial /\ c.Raw = other.Raw

\* CertPool.contains
contains(pool, c) == \E i \in 1..Len(pool) : Equal(pool[i], c)

\* CertPool.AddCert: a certificate the pool holds is not added again
AddCert(pool, c) ==
    IF contains(pool, c) THEN pool ELSE Append(pool, c)

\* CertPool.AppendCertsFromPEM: whether a certificate was found, and the pool
AppendCertsFromPEM(pool, d) ==
    IF d.enc = "pem" THEN [ok |-> TRUE, pool |-> AddCert(pool, d.cert)]
    ELSE [ok |-> FALSE, pool |-> pool]

\* parseCertsToPool: whether it returned an error, and the pool it leaves
RECURSIVE parseCertsToPool(_, _)
parseCertsToPool(files, pool) ==
    IF files = <<>> THEN [err |-> FALSE, pool |-> pool]
    ELSE LET info == Head(files)
             p == ParseCertificate(info.data)
         IN IF info.IsDir THEN parseCertsToPool(Tail(files), pool)
            ELSE IF info.Ext = ".der"
            THEN IF ~info.readable \/ IsFatal(p.err)
                 THEN [err |-> TRUE, pool |-> pool]
                 ELSE parseCertsToPool(Tail(files), AddCert(pool, p.c))
            ELSE IF info.Ext \in {".crt", ".cer"}
            THEN IF ~info.readable THEN [err |-> TRUE, pool |-> pool]
                 ELSE IF IsFatal(p.err)
                 THEN LET a == AppendCertsFromPEM(pool, info.data)
                      IN IF ~a.ok THEN [err |-> TRUE, pool |-> pool]
                         ELSE parseCertsToPool(Tail(files), a.pool)
                 ELSE IF p.err = ""
                 THEN parseCertsToPool(Tail(files), AddCert(pool, p.c))
                 ELSE parseCertsToPool(Tail(files), pool)
            ELSE parseCertsToPool(Tail(files), pool)

\* readCertificates on one manufacturer subtree: a directory listing fails
\* with "notexist", with another error, or yields the files
readCertificates(m, roots, intermediates) ==
    IF m.RootCA.err \notin {"", "notexist"}
    THEN [err |-> TRUE, roots |-> roots, intermediates |-> intermediates]
    ELSE LET r == IF m.RootCA.err = ""
                  THEN parseCertsToPool(m.RootCA.files, roots)
                  ELSE [err |-> FALSE, pool |-> roots]
         IN IF r.err
            THEN [err |-> TRUE, roots |-> r.pool, intermediates |-> intermediates]
            ELSE IF m.IntermediateCA.err = "notexist"
            THEN [err |-> FALSE, roots |-> r.pool, intermediates |-> intermediates]
            ELSE IF m.IntermediateCA.err # ""
            THEN [err |-> TRUE, roots |-> r.pool, intermediates |-> intermediates]
            ELSE LET i == parseCertsToPool(m.IntermediateCA.files, intermediates)
                 IN [err |-> i.err, roots |-> r.pool, intermediates |-> i.pool]

\* the inner loop of NewEKVerifier over the entries of one directory
RECURSIVE readEntries(_, _, _)
readEntries(entries, roots, intermediates) ==
    IF entries = <<>>
    THEN [err |-> FALSE, roots |-> roots, intermediates |-> intermediates]
    ELSE IF ~Head(entries).IsDir
    THEN readEntries(Tail(entries), roots, intermediates)
    ELSE LET r == readCertificates(Head(entries), roots, intermediates)
         IN IF r.err THEN r
            ELSE readEntries(Tail(entries), r.roots, r.intermediates)

\* the outer loop of NewEKVerifier over the directories it is given
RECURSIVE readDirs(_, _, _)
readDirs(dirs, roots, intermediates) ==
    IF dirs = <<>>
    THEN [err |-> FALSE, roots |-> roots, intermediates |-> intermediates]
    ELSE IF Head(dirs).err # ""
    THEN [err |-> TRUE, roots |-> roots, intermediates |-> intermediates]
    ELSE LET r == readEntries(Head(dirs).entries, roots, intermediates)
         IN IF r.err THEN r ELSE readDirs(Tail(dirs), r.roots, r.intermediates)

\* no verifier: what NewEKVerifier returns next to an error
NilVerifier == [built |-> FALSE, err |-> FALSE, roots |-> <<>>, intermediates |-> <<>>]

\* NewEKVerifier
NewEKVerifier(paths) ==
    LET r == readDirs(paths, <<>>, <<>>)
    IN IF r.err THEN [NilVerifier EXCEPT !.built = TRUE, !.err = TRUE]
       ELSE [built |-> TRUE, err |-> FALSE,
             roots |-> r.roots, intermediates |-> r.intermediates]

\* Certificate.isValid, as far as the model's certificates can fail it
isValid(c) ==
    IF c.expired THEN "x509: certificate has expired or is not yet valid" ELSE ""

\* CertPool.findVerifiedParents: the certificates of the pool that issued c,
\* as indices in pool order
RECURSIVE parentsFrom(_, _, _)
parentsFrom(pool, c, i) ==
    IF i > Len(pool) THEN <<>>
    ELSE IF pool[i].subject = c.issuer THEN <<i>> \o parentsFrom(pool, c, i + 1)
    ELSE parentsFrom(pool, c, i + 1)

findVerifiedParents(pool, c) == parentsFrom(pool, c, 1)

\* the first loop of Certificate.buildChains: a root on the chain is passed
\* over, each other valid root that issued c ends a chain; err is what
\* isValid said of the last root it was asked about
RECURSIVE rootChains(_, _, _, _)
rootChains(cands, currentChain, roots, acc) ==
    IF cands = <<>> THEN acc
    ELSE LET root == roots[Head(cands)]
             e == isValid(root)
         IN rootChains(Tail(cands), currentChain, roots,
                       IF \E n \in 1..Len(currentChain) : Equal(currentChain[n], root)
                       THEN acc
                       ELSE IF e # "" THEN [acc EXCEPT !.err = e]
                       ELSE [chains |-> Append(acc.chains, Append(currentChain, root)),
                             err |-> ""])

\* Certificate.buildChains: the chains from the last certificate of
\* currentChain to a root, the error left by the last candidate looked at,
\* and the cache of the chains found from each intermediate
RECURSIVE buildChains(_, _, _, _, _)
RECURSIVE intermediateChains(_, _, _, _, _)

\* the second loop of buildChains: an intermediate on the chain is passed
\* over, one that is not valid leaves its error, and the chains from any
\* other are taken from the cache or built and put into it
intermediateChains(cands, currentChain, roots, intermediates, acc) ==
    IF cands = <<>> THEN acc
    ELSE LET k == Head(cands)
             intermediate == intermediates[k]
             e == isValid(intermediate)
             next(a) == intermediateChains(Tail(cands), currentChain, roots,
                                           intermediates, a)
         IN IF \E n \in 1..Len(currentChain) : Equal(currentChain[n], intermediate)
            THEN next(acc)
            ELSE IF e # "" THEN next([acc EXCEPT !.err = e])
            ELSE IF k \in DOMAIN acc.cache
            THEN next([acc EXCEPT !.err = "",
                                  !.chains = acc.chains \o acc.cache[k]])
            ELSE LET r == buildChains(intermediate,
                                      Append(currentChain, intermediate),
                                      roots, intermediates, acc.cache)
                 IN next([chains |-> acc.chains \o r.chains,
                          err |-> r.err,
                          cache |-> [n \in DOMAIN r.cache \cup {k} |->
                                        IF n = k THEN r.chains ELSE r.cache[n]]])

buildChains(c, currentChain, roots, intermediates, cache) ==
    LET fromRoots == rootChains(findVerifiedParents(roots, c), currentChain, roots,
                                [chains |-> <<>>, err |-> ""])
        all == intermediateChains(findVerifiedParents(intermediates, c),
                                  currentChain, roots, intermediates,
                                  [chains |-> fromRoots.chains,
                                   err |-> fromRoots.err, cache |-> cache])
    IN [chains |-> all.chains,
        err |-> IF Len(all.chains) > 0 THEN ""
                ELSE IF all.err = ""
                THEN "x509: certificate signed by unknown authority"
                ELSE all.err,
        cache |-> all.cache]

\* Certificate.Verify with any key usage allowed: the chains, or an error.
\* The leaf's validity is checked first; a leaf the roots hold is a chain by
\* itself; else the chains are built
Verify(c, roots, intermediates) ==
    IF isValid(c) # "" THEN [chains |-> <<>>, err |-> isValid(c)]
    ELSE IF contains(roots, c) THEN [chains |-> <<<<c>>>>, err |-> ""]
    ELSE LET r == buildChains(c, <<c>>, roots, intermediates, <<>>)
         IN [chains |-> r.chains, err |-> r.err]

\* strings.Join(names, " ")
RECURSIVE Join(_)
Join(names) ==
    IF names = <<>> THEN ""
    ELSE IF Len(names) = 1 THEN names[1]
    ELSE names[1] \o " " \o Join(Tail(names))

\* EkcertVerificationResults_CertSummary of one certificate of the chain
CertSummary(cert) ==
    [IssuerCn |-> cert.issuer, IssuerOrg |-> Join(cert.org),
     Serial |-> ToString(cert.serial)]

\* a result that reports success whatever Verify said
ekcertResults_alwaysSucceeded(chains, verificationErr) ==
    [Succeeded |-> TRUE,
     ChainVerified |-> verificationErr = "",
     VerificationError |-> verificationErr,
     Chain |-> IF verificationErr # "" THEN <<>>
               ELSE [i \in 1..Len(chains[1]) |-> CertSummary(chains[1][i])]]

\* the EkcertVerificationResults VerifyEKCert builds from what Verify returned
ekcertResults(chains, verificationErr) ==
    [Succeeded |-> verificationErr = "",
     ChainVerified |-> verificationErr = "",
     VerificationError |-> verificationErr,
     Chain |-> IF verificationErr # "" THEN <<>>
               ELSE [i \in 1..Len(chains[1]) |-> CertSummary(chains[1][i])]]

\* no EkcertVerificationResults
NilResults ==
    [Succeeded |-> FALSE, ChainVerified |-> FALSE, VerificationError |-> "",
     Chain |-> <<>>]

\* EKVerifier.VerifyEKCert: the field of the parsed certificate is assigned
\* before the error is looked at, so a nil certificate makes the call panic
VerifyEKCert(v, certBytes) ==
    LET p == ParseCertificate(certBytes)
    IN IF p.c = NilCert THEN [outcome |-> "panic", res |-> NilResults]
       ELSE IF IsFatal(p.err) THEN [outcome |-> "error", res |-> NilResults]
       ELSE LET ver == Verify(p.c, v.roots, v.intermediates)
            IN [outcome |-> "result", res |-> ekcertResults(ver.chains, ver.err)]

\* VerifyEKCert has not been called
NoCall == [called |-> FALSE, certBytes |-> Junk, outcome |-> "", res |-> NilResults]

(* What NewEKVerifier may find on disk, and what VerifyEKCert may be given *)

\* an entry of a RootCA or IntermediateCA directory
File(ext, data) == [IsDir |-> FALSE, Ext |-> ext, readable |-> TRUE, data |-> data]

CertFiles ==
    {File(".der", DER(RootCert)), File(".der", DER(IntermediateCert)),
     File(".der", DERNonFatal(RootCert)), File(".der", Junk),
     File(".crt", PEM(RootCert)), File(".cer", PEM(IntermediateCert)),
     File(".crt", DERNonFatal(IntermediateCert)), File(".cer", Junk),
     File(".txt", Junk), File(".der", DER(ExpiredRootCert)),
     [File(".der", DER(RootCert)) EXCEPT !.readable = FALSE],
     [File("", Junk) EXCEPT !.IsDir = TRUE]}

\* the sequences over S of length at most n
SeqUpTo(S, n) == UNION {[1..k -> S] : k \in 0..n}

\* what ioutil.ReadDir makes of RootCA or IntermediateCA
CertDirs ==
    {[err |-> e, files |-> <<>>] : e \in {"notexist", "other"}} \cup
    {[err |-> "", files |-> fs] : fs \in SeqUpTo(CertFiles, MaxFiles)}

\* a manufacturer subtree
Manufacturers ==
    {[IsDir |-> TRUE, RootCA |-> r, IntermediateCA |-> i] :
        r \in CertDirs, i \in CertDirs}

\* a plain file next to the manufacturer subtrees
PlainEntry ==
    [IsDir |-> FALSE, RootCA |-> [err |-> "notexist", files |-> <<>>],
     IntermediateCA |-> [err |-> "notexist", files |-> <<>>]]

CertsPaths ==
    {<<[err |-> "other", entries |-> <<>>]>>} \cup
    {<<[err |-> "", entries |-> before \o <<m>>]>> :
        before \in {<<>>, <<PlainEntry>>}, m \in Manufacturers}

\* the bytes VerifyEKCert may be given
CertInputs ==
    {DER(EKViaIntermediate), DER(EKViaRoot), DER(EKUnknownIssuer),
     DER(EKExpired), DER(RootCert), DERNonFatal(EKViaRoot), PEM(EKViaRoot),
     Junk}

----------------------------------------------------------------------------
(* The server: one goroutine per request, all handlers under server.lock *)

InitServer ==
    /\ state = <<>>
    /\ lock = 0
    /\ pc = [w \in Workers |-> "idle"]
    /\ handler = [w \in Workers |-> ""]
    /\ rd = [w \in Workers |-> ZeroRequest]
    /\ resp = [w \in Workers |-> NoResponse]
    /\ drawn = 0
    /\ issued = {}
    /\ consumed = {}
    /\ served = 0
    /\ local = [w \in Workers |-> NoLocals]

\* the server starts with no EK verifier built
Init ==
    /\ InitServer
    /\ certsPath = <<>>
    /\ ekVerifier = NilVerifier
    /\ ekOut = NoCall

\* a request arrives and is given a goroutine of its own
Serve(w) ==
    /\ pc[w] = "idle"
    /\ served < MaxRequests
    /\ served' = served + 1
    /\ pc' = [pc EXCEPT ![w] = "Lock"]
    /\ UNCHANGED <<ekVars, local, state, lock, handler, rd, resp, drawn, issued, consumed>>

\* a lock that lets a second goroutine in while the first still holds it
Lock_noExclusion(w, path) ==
    /\ pc[w] = "Lock"
    /\ lock' = w
    /\ handler' = [handler EXCEPT ![w] = path]
    /\ pc' = [pc EXCEPT ![w] = "unmarshalRequestBody"]
    /\ UNCHANGED <<ekVars, local, state, rd, resp, drawn, issued, consumed, served>>

\* the mux has dispatched the request to the handler of its path, whose
\* first statement s.lock.Lock() returns once the lock is free
Lock(w, path) ==
    /\ pc[w] = "Lock"
    /\ lock = 0
    /\ lock' = w
    /\ handler' = [handler EXCEPT ![w] = path]
    /\ pc' = [pc EXCEPT ![w] = "unmarshalRequestBody"]
    /\ UNCHANGED <<ekVars, local, state, rd, resp, drawn, issued, consumed, served>>

\* the goroutine holds the lock and is about to read the request body
AtBody(w, path) ==
    /\ pc[w] = "unmarshalRequestBody"
    /\ handler[w] = path
    /\ lock = w

activationGetChallenge(w) ==
    /\ AtBody(w, PathChallenge)
    /\ \E r \in ChallengeRequests(state) :
         LET out == activationGetChallengeStep(state, r, drawn + 1) IN
         /\ out.draws = 1 => drawn < MaxDraws
         /\ state' = out.state
         /\ rd' = [rd EXCEPT ![w] = r]
         /\ resp' = [resp EXCEPT ![w] = out.resp]
         /\ drawn' = drawn + out.draws
    /\ pc' = [pc EXCEPT ![w] = "Unlock"]
    /\ UNCHANGED <<ekVars, local, lock, handler, issued, consumed, served>>

activate(w) ==
    /\ AtBody(w, PathActivate)
    /\ \E r \in ActivateRequests(state, drawn) :
         LET out == activateStep(state, r) IN
         /\ state' = out.state
         /\ rd' = [rd EXCEPT ![w] = r]
         /\ resp' = [resp EXCEPT ![w] = out.resp]
    /\ pc' = [pc EXCEPT ![w] = "Unlock"]
    /\ UNCHANGED <<ekVars, local, lock, handler, drawn, issued, consumed, served>>

getNonce(w) ==
    /\ AtBody(w, PathNonce)
    /\ \E r \in NonceRequests(state), got \in ReadCounts(NonceLen) :
         LET out == getNonceStep(state, r, drawn + 1, got) IN
         /\ out.draws = 1 => drawn < MaxDraws
         /\ state' = out.state
         /\ rd' = [rd EXCEPT ![w] = r]
         /\ resp' = [resp EXCEPT ![w] = out.resp]
         /\ drawn' = drawn + out.draws
         /\ issued' = IF out.resp.status = StatusOK
                      THEN issued \cup {out.resp.Nonce} ELSE issued
         /\ consumed' = IF out.resp.status = StatusOK
                        THEN consumed \ {r.AIK.Public} ELSE consumed
    /\ pc' = [pc EXCEPT ![w] = "Unlock"]
    /\ UNCHANGED <<ekVars, local, lock, handler, served>>

attest(w) ==
    /\ AtBody(w, PathAttest)
    /\ \E r \in AttestRequests(state, drawn) :
         LET out == attestStep(state, r) IN
         /\ state' = out.state
         /\ rd' = [rd EXCEPT ![w] = r]
         /\ resp' = [resp EXCEPT ![w] = out.resp]
         /\ consumed' = IF out.judged THEN consumed \cup {r.AIK.Public} ELSE consumed
    /\ pc' = [pc EXCEPT ![w] = "Unlock"]
    /\ UNCHANGED <<ekVars, local, lock, handler, drawn, issued, served>>

\* defer s.lock.Unlock(): runs on every return and when the handler panics
Unlock(w) ==
    /\ pc[w] = "Unlock"
    /\ lock = w
    /\ lock' = 0
    /\ pc' = [pc EXCEPT ![w] = "idle"]
    /\ handler' = [handler EXCEPT ![w] = ""]
    /\ rd' = [rd EXCEPT ![w] = ZeroRequest]
    /\ resp' = [resp EXCEPT ![w] = NoResponse]
    /\ UNCHANGED <<ekVars, local, state, drawn, issued, consumed, served>>

Next ==
    \E w \in Workers :
        \/ Serve(w)
        \/ \E path \in Paths : Lock(w, path)
        \/ activationGetChallenge(w)
        \/ activate(w)
        \/ getNonce(w)
        \/ attest(w)
        \/ Unlock(w)

Spec == Init /\ [][Next]_vars

\* The scheduling the server runs under: the deferred Unlock of a handler
\* that has returned runs; sync.Mutex hands the lock to a goroutine that
\* keeps waiting for it (starvation mode), so a waiter that can take the
\* lock again and again does take it. Nothing makes a handler's read of the
\* request body return: the server sets no read timeout, and the step
\* waits for the client.
Fairness ==
    \A w \in Workers :
        /\ SF_vars(\E path \in Paths : Lock(w, path))
        /\ WF_vars(Unlock(w))

FairSpec == Spec /\ Fairness

----------------------------------------------------------------------------
(* The handlers statement by statement: the lookup of the record and the   *)
(* assignments through the pointer it returned are separate steps, and a   *)
(* step asks only where its own goroutine stands, as the code does.        *)

\* activationGetChallenge up to c := s.clientInfo(rd.AIK.Public)
challengeFetch(w) ==
    /\ pc[w] = "unmarshalRequestBody"
    /\ handler[w] = PathChallenge
    /\ \E r \in ChallengeRequests(state) :
         LET out == activationGetChallengeStep(state, r, drawn + 1) IN
         /\ out.draws = 1 => drawn < MaxDraws
         /\ rd' = [rd EXCEPT ![w] = r]
         /\ drawn' = drawn + out.draws
         /\ IF out.draws = 0
            THEN /\ state' = out.state
                 /\ resp' = [resp EXCEPT ![w] = out.resp]
                 /\ pc' = [pc EXCEPT ![w] = "Unlock"]
                 /\ UNCHANGED local
            ELSE LET ek == EKPublic(r).ek
                     g == Generate([TPMVersion |-> r.TPMVersion, EK |-> ek,
                                    AIK |-> r.AIK], drawn + 1)
                 IN /\ state' = clientInfoState(state, r.AIK.Public)
                    /\ local' = [local EXCEPT ![w] =
                                    [c |-> clientInfo(state, r.AIK.Public),
                                     k |-> drawn + 1, ek |-> ek,
                                     secret |-> g.secret, ec |-> g.ec]]
                    /\ pc' = [pc EXCEPT ![w] = "assign"]
                    /\ UNCHANGED resp
    /\ UNCHANGED <<ekVars, lock, handler, issued, consumed, served>>

\* activationGetChallenge from c.AIK = rd.AIK to the response
challengeAssign(w) ==
    /\ pc[w] = "assign"
    /\ handler[w] = PathChallenge
    /\ state' = [state EXCEPT ![local[w].c] =
                    challengeStore(@, rd[w], local[w].ek, local[w].secret)]
    /\ resp' = [resp EXCEPT ![w] = Encode(<<>>, local[w].ec)]
    /\ local' = [local EXCEPT ![w] = NoLocals]
    /\ pc' = [pc EXCEPT ![w] = "Unlock"]
    /\ UNCHANGED <<ekVars, lock, handler, rd, drawn, issued, consumed, served>>

\* activate up to the comparison of the credential with c.ActivationSecret
activateCheck(w) ==
    /\ pc[w] = "unmarshalRequestBody"
    /\ handler[w] = PathActivate
    /\ \E r \in ActivateRequests(state, drawn) :
         /\ rd' = [rd EXCEPT ![w] = r]
         /\ IF ~r.ok
            THEN /\ resp' = [resp EXCEPT ![w] = HttpError(StatusInternalServerError)]
                 /\ pc' = [pc EXCEPT ![w] = "Unlock"]
                 /\ UNCHANGED <<state, local>>
            ELSE LET st1 == clientInfoState(state, r.AIK.Public)
                     i == clientInfo(state, r.AIK.Public)
                 IN /\ state' = st1
                    /\ IF activateAccepts(st1[i], r)
                       THEN /\ local' = [local EXCEPT ![w] = [NoLocals EXCEPT !.c = i]]
                            /\ pc' = [pc EXCEPT ![w] = "assign"]
                            /\ UNCHANGED resp
                       ELSE /\ resp' = [resp EXCEPT ![w] = HttpError(StatusBadRequest)]
                            /\ pc' = [pc EXCEPT ![w] = "Unlock"]
                            /\ UNCHANGED local
    /\ UNCHANGED <<ekVars, lock, handler, drawn, issued, consumed, served>>

\* activate from c.Activated = true to the response
activateAssign(w) ==
    /\ pc[w] = "assign"
    /\ handler[w] = PathActivate
    /\ state' = [state EXCEPT ![local[w].c] = activateStore(@, TRUE)]
    /\ resp' = [resp EXCEPT ![w] = Encode(<<>>, NoCredential)]
    /\ local' = [local EXCEPT ![w] = NoLocals]
    /\ pc' = [pc EXCEPT ![w] = "Unlock"]
    /\ UNCHANGED <<ekVars, lock, handler, rd, drawn, issued, consumed, served>>

NextStatements ==
    \E w \in Workers :
        \/ Serve(w)
        \/ \E path \in Paths : Lock(w, path)
        \/ challengeFetch(w)
        \/ challengeAssign(w)
        \/ activateCheck(w)
        \/ activateAssign(w)
        \/ getNonce(w)
        \/ attest(w)
        \/ Unlock(w)

SpecStatements == Init /\ [][NextStatements]_vars

----------------------------------------------------------------------------
(* The EK verifier: built once from the directories, then asked about      *)
(* endorsement certificates                                                *)

InitEK ==
    /\ InitServer
    /\ certsPath \in CertsPaths
    /\ ekVerifier = NilVerifier
    /\ ekOut = NoCall

\* NewEKVerifier(certsPath) is called
BuildVerifier ==
    /\ ~ekVerifier.built
    /\ ekVerifier' = NewEKVerifier(certsPath)
    /\ UNCHANGED <<state, lock, pc, handler, rd, resp, drawn, issued, consumed,
                   served, local, certsPath, ekOut>>

\* VerifyEKCert is called on the verifier NewEKVerifier returned; a panic
\* ends the process
CallVerifyEKCert ==
    /\ ekVerifier.built
    /\ ~ekVerifier.err
    /\ ekOut.outcome # "panic"
    /\ \E d \in CertInputs :
         LET o == VerifyEKCert(ekVerifier, d)
         IN ekOut' = [called |-> TRUE, certBytes |-> d,
                      outcome |-> o.outcome, res |-> o.res]
    /\ UNCHANGED <<state, lock, pc, handler, rd, resp, drawn, issued, consumed,
                   served, local, certsPath, ekVerifier>>

NextEK == BuildVerifier \/ CallVerifyEKCert

SpecEK == InitEK /\ [][NextEK]_vars

----------------------------------------------------------------------------
(* Vocabulary of the properties *)

\* the handler of path has run in goroutine w and has not yet returned
Done(w, path) == pc[w] = "Unlock" /\ handler[w] = path

\* this step is the body of the handler of path, run by goroutine w
Ran(w, path) ==
    /\ pc[w] = "unmarshalRequestBody"
    /\ handler[w] = path
    /\ pc'[w] = "Unlock"

\* the handler of goroutine w decoded its request and fetched the record
Fetched(w) ==
    /\ pc[w] = "Unlock"
    /\ rd[w].ok
    /\ handler[w] = PathChallenge => resp[w].status = StatusOK

\* the indices of the records whose AIK public blob is pub
Holding(st, pub) == {i \in 1..Len(st) : st[i].AIK.Public = pub}

\* the record of the AIK of goroutine w's request
Rec(w) == state[CHOOSE i \in Holding(state, rd[w].AIK.Public) : TRUE]

----------------------------------------------------------------------------
(* C1: the registry holds exactly one record per distinct AIK public blob: *)
(* no two records carry the same blob, and once a handler has fetched the  *)
(* record of a blob exactly one record carries that blob.                  *)
C1_OneRecordPerBlob ==
    /\ \A i, j \in 1..Len(state) :
          state[i].AIK.Public = state[j].AIK.Public => i = j
    /\ \A w \in Workers :
          Fetched(w) => Cardinality(Holding(state, rd[w].AIK.Public)) = 1

\* an activation succeeds on a record an earlier request created, next to
\* the record of another blob
C1_Witness ==
    /\ Len(state) = 2
    /\ \E w \in Workers : Done(w, PathActivate) /\ resp[w].status = StatusOK

(* C2: for a record with a pending activation secret, an activation        *)
(* request succeeds if and only if the submitted credential is exactly     *)
(* that secret, and a successful one leaves the record activated.          *)
C2_AcceptedIffExactSecret ==
    \A w \in Workers :
        (Done(w, PathActivate) /\ rd[w].ok /\ Len(Rec(w).ActivationSecret) > 0) =>
            /\ resp[w].status = StatusOK
                   <=> rd[w].DecryptedCredential = Rec(w).ActivationSecret
            /\ resp[w].status = StatusOK => Rec(w).Activated
            /\ resp[w].status # StatusOK => resp[w].status = StatusBadRequest

\* the secret cut short by one byte has just been rejected
C2_Witness ==
    \E w \in Workers :
        /\ Done(w, PathActivate)
        /\ rd[w].ok
        /\ Len(Rec(w).ActivationSecret) = SecretLen
        /\ rd[w].DecryptedCredential = SubSeq(Rec(w).ActivationSecret, 1, SecretLen - 1)
        /\ resp[w].status = StatusBadRequest
        /\ ~Rec(w).Activated

(* C3: a stored nonce judges at most one quote valid: an attest request    *)
(* whose quote is judged valid is never judged against a stored nonce that *)
(* an earlier attest request was already judged against (stated for the    *)
(* nonces the random source filled).                                       *)
C3_NonceSingleUse ==
    [][\A w \in Workers :
          (/\ Ran(w, PathAttest)
           /\ resp'[w].status = StatusOK
           /\ Holding(state, rd'[w].AIK.Public) # {}
           /\ LET c == state[CHOOSE i \in Holding(state, rd'[w].AIK.Public) : TRUE]
              IN c.Nonce \notin {<<>>, Zero(NonceLen)}
           /\ LET c == state'[CHOOSE i \in Holding(state', rd'[w].AIK.Public) : TRUE]
              IN c.AttestResults.Succeeded)
          => rd'[w].AIK.Public \notin consumed]_vars

(* C4: a nonce request stores the nonce it returns as the record's Nonce,  *)
(* and a quote built over an issued nonce other than the stored one is     *)
(* reported as a nonce mismatch and not as success.                        *)
C4_OneOutstandingNonce ==
    \A w \in Workers :
        /\ (Done(w, PathNonce) /\ resp[w].status = StatusOK) =>
              Rec(w).Nonce = resp[w].Nonce
        /\ (/\ Done(w, PathAttest)
            /\ resp[w].status = StatusOK
            /\ rd[w].Quote.Quote.ExtraData \in issued
            /\ rd[w].Quote.Quote.ExtraData # Rec(w).Nonce) =>
              /\ Rec(w).AttestResults.NonceMismatch
              /\ ~Rec(w).AttestResults.Succeeded

\* a correctly signed quote over the superseded nonce has just failed
C4_Witness ==
    \E w \in Workers :
        /\ Done(w, PathAttest)
        /\ resp[w].status = StatusOK
        /\ Len(state) = 1
        /\ Cardinality(issued) = 2
        /\ rd[w].Quote.Quote.ExtraData \in issued
        /\ rd[w].Quote.Quote.ExtraData # Rec(w).Nonce
        /\ Rec(w).AttestResults.NonceMismatch
        /\ ~Rec(w).AttestResults.SignatureMismatch
        /\ ~Rec(w).AttestResults.PcrDigestMismatch

(* C5: every nonce a nonce request returns differs from every nonce        *)
(* returned earlier.                                                       *)
C5_NonceNeverRepeats ==
    [][\A w \in Workers :
          (Ran(w, PathNonce) /\ resp'[w].status = StatusOK)
          => resp'[w].Nonce \notin issued]_vars

(* C6: a successful challenge request leaves the record with the supplied  *)
(* endorsement key and AIK parameters, the secret wrapped in the returned  *)
(* challenge as pending secret and activated false; the secret differs     *)
(* from the one it replaces.                                               *)
C6_ChallengeStored ==
    \A w \in Workers :
        (Done(w, PathChallenge) /\ resp[w].status = StatusOK) =>
            /\ Rec(w).EK = rd[w].EKPem.key
            /\ Rec(w).AIK = rd[w].AIK
            /\ Rec(w).ActivationSecret = resp[w].ActivationChallenge.wraps
            /\ Len(Rec(w).ActivationSecret) > 0
            /\ ~Rec(w).Activated

C6_SecretReplaced ==
    \A w \in Workers :
        (/\ Ran(w, PathChallenge)
         /\ resp'[w].status = StatusOK
         /\ Holding(state, rd'[w].AIK.Public) # {}) =>
            LET i == CHOOSE i \in Holding(state, rd'[w].AIK.Public) : TRUE
            IN /\ state'[i].ActivationSecret # state[i].ActivationSecret
               /\ ~state'[i].Activated
               /\ Len(state') = Len(state)

C6_ChallengeOverwrites == []C6_ChallengeStored /\ [][C6_SecretReplaced]_vars

\* the secret of the first challenge is rejected after a second challenge
\* for the same (and only) AIK
C6_Witness ==
    \E w \in Workers :
        /\ Done(w, PathActivate)
        /\ resp[w].status = StatusBadRequest
        /\ Len(state) = 1
        /\ Rec(w).Nonce = <<>>
        /\ drawn = 2
        /\ Rec(w).ActivationSecret = Secret(2)
        /\ rd[w].DecryptedCredential = Secret(1)

(* C7: an activation-challenge request that fails leaves the registry and  *)
(* every record as they were.                                              *)
C7_FailedChallengeMutatesNothing ==
    [][\A w \in Workers :
          (Ran(w, PathChallenge) /\ resp'[w].status # StatusOK)
          => state' = state]_vars

\* a request with a malformed endorsement key has just been rejected while
\* the registry holds a record
C7_Witness ==
    \E w \in Workers :
        /\ Done(w, PathChallenge)
        /\ resp[w].status = StatusInternalServerError
        /\ rd[w].ok
        /\ rd[w].EKPem.pem
        /\ Len(state) > 0
        /\ Holding(state, rd[w].AIK.Public) = {}

(* C8: an activation request for a record with no pending secret fails     *)
(* and the record stays not activated, whatever credential is submitted.   *)
C8_NoChallengeNoActivation ==
    \A w \in Workers :
        (Done(w, PathActivate) /\ rd[w].ok /\ Len(Rec(w).ActivationSecret) = 0) =>
            /\ resp[w].status = StatusBadRequest
            /\ ~Rec(w).Activated

\* the empty credential has just been rejected for a record without secret
C8_Witness ==
    \E w \in Workers :
        /\ Done(w, PathActivate)
        /\ rd[w].ok
        /\ Len(Rec(w).ActivationSecret) = 0
        /\ rd[w].DecryptedCredential = <<>>
        /\ resp[w].status = StatusBadRequest

(* C9: a failed activation attempt leaves the pending secret as it was,    *)
(* and an activation request carrying the pending secret succeeds and      *)
(* activates the record.                                                   *)
C9_SecretKept ==
    \A w \in Workers :
        (/\ Ran(w, PathActivate)
         /\ resp'[w].status = StatusBadRequest
         /\ Holding(state, rd'[w].AIK.Public) # {}) =>
            LET i == CHOOSE i \in Holding(state, rd'[w].AIK.Public) : TRUE
            IN state'[i].ActivationSecret = state[i].ActivationSecret

C9_CorrectSecretSucceeds ==
    \A w \in Workers :
        (/\ Done(w, PathActivate)
         /\ rd[w].ok
         /\ Len(rd[w].DecryptedCredential) > 0
         /\ rd[w].DecryptedCredential = Rec(w).ActivationSecret) =>
            resp[w].status = StatusOK /\ Rec(w).Activated

C9_FailedAttemptKeepsSecret == []C9_CorrectSecretSucceeds /\ [][C9_SecretKept]_vars

\* a wrong credential has just been rejected and the secret is still pending
C9_Witness ==
    \E w \in Workers :
        /\ Done(w, PathActivate)
        /\ resp[w].status = StatusBadRequest
        /\ Len(rd[w].DecryptedCredential) > 0
        /\ Len(Rec(w).ActivationSecret) > 0
        /\ ~Rec(w).Activated

(* C10: an activation request for an activated record leaves it activated: *)
(* the pending secret is answered with success again, any other credential *)
(* with a failure.                                                         *)
C10_ActivatedIsSticky ==
    [][\A w \in Workers :
          (/\ Ran(w, PathActivate)
           /\ rd'[w].ok
           /\ Holding(state, rd'[w].AIK.Public) # {}
           /\ LET c == state[CHOOSE i \in Holding(state, rd'[w].AIK.Public) : TRUE]
              IN c.Activated) =>
             LET i == CHOOSE i \in Holding(state, rd'[w].AIK.Public) : TRUE
             IN /\ state'[i].Activated
                /\ state'[i] = state[i]
                /\ resp'[w].status =
                      IF rd'[w].DecryptedCredential = state[i].ActivationSecret
                      THEN StatusOK ELSE StatusBadRequest]_vars

\* wrong bytes have just been rejected for an activated record
C10_Witness ==
    \E w \in Workers :
        /\ Done(w, PathActivate)
        /\ resp[w].status = StatusBadRequest
        /\ Rec(w).Activated

(* C11 as claimed: every attest request that reaches quote verification    *)
(* stores its outcome in the record's AttestResults, so that after the     *)
(* request the record holds the outcome of this request's quote, signature *)
(* and PCRs judged against the record's nonce, and not an earlier one.     *)
C11_EveryVerificationStored ==
    \A w \in Workers :
        (Done(w, PathAttest) /\ rd[w].ok) =>
            LET a == Rec(w).AttestResults
                sigBad == rd[w].Quote.Signature.signer # rd[w].AIK.Public
                nonceBad == rd[w].Quote.Quote.ExtraData # Rec(w).Nonce
                digestBad == rd[w].Quote.Quote.PCRDigest # PCRDigest(rd[w].PCRs)
            IN /\ a.present
               /\ a.SignatureMismatch = sigBad
               /\ a.NonceMismatch = nonceBad
               /\ a.PcrDigestMismatch = digestBad
               /\ a.Succeeded = (~sigBad /\ ~nonceBad /\ ~digestBad)

(* C11 as amended: an attest request whose quote verification returns an   *)
(* outcome is answered 200 and stores that outcome, success or failure,    *)
(* in place of any earlier one; an attest request whose verification       *)
(* returns an error instead is answered 500 and leaves the record's        *)
(* AttestResults as they were.                                             *)
C11_OutcomeStored ==
    \A w \in Workers :
        (Done(w, PathAttest) /\ rd[w].ok) =>
            /\ resp[w].status \in {StatusOK, StatusInternalServerError}
            /\ resp[w].status = StatusOK =>
                 LET a == Rec(w).AttestResults
                     sigBad == rd[w].Quote.Signature.signer # rd[w].AIK.Public
                     nonceBad == rd[w].Quote.Quote.ExtraData # Rec(w).Nonce
                     digestBad == rd[w].Quote.Quote.PCRDigest # PCRDigest(rd[w].PCRs)
                 IN /\ a.present
                    /\ a.SignatureMismatch = sigBad
                    /\ a.NonceMismatch = nonceBad
                    /\ a.PcrDigestMismatch = digestBad
                    /\ a.Succeeded = (~sigBad /\ ~nonceBad /\ ~digestBad)

\* C11, the error branch: a decoded attest request not answered 200 is
\* answered 500, changes no record's AttestResults and leaves a record it
\* created without any
C11_ErrorKeepsResults ==
    \A w \in Workers :
        (Ran(w, PathAttest) /\ rd'[w].ok /\ resp'[w].status # StatusOK) =>
            /\ resp'[w].status = StatusInternalServerError
            /\ \A i \in 1..Len(state) :
                   state'[i].AttestResults = state[i].AttestResults
            /\ \A i \in (Len(state) + 1)..Len(state') :
                   ~state'[i].AttestResults.present

\* C11 as amended: an attest request given an outcome by the quote
\* verification is answered 200 and stores that outcome in place of any
\* earlier one; one on which the verification returns an error is answered
\* 500 and leaves the stored results as they were
C11_OutcomeStoredUnlessError ==
    []C11_OutcomeStored /\ [][C11_ErrorKeepsResults]_vars

\* a quote signed by another key has just been judged against an issued
\* nonce and its failure is what the record holds
C11_Witness ==
    \E w \in Workers :
        /\ Done(w, PathAttest)
        /\ resp[w].status = StatusOK
        /\ Len(Rec(w).Nonce) = NonceLen
        /\ Rec(w).AttestResults.present
        /\ Rec(w).AttestResults.SignatureMismatch
        /\ ~Rec(w).AttestResults.NonceMismatch
        /\ ~Rec(w).AttestResults.Succeeded

(* C12: a verification failure is never answered as a success: an attest   *)
(* request whose outcome is not a success is not answered with status 200, *)
(* and neither is an activation request whose credential differs from the  *)
(* pending secret.                                                         *)
C12_FailureNeverSuccess ==
    \A w \in Workers :
        /\ (Done(w, PathAttest) /\ rd[w].ok /\ resp[w].status = StatusOK) =>
              Rec(w).AttestResults.Succeeded
        /\ (Done(w, PathActivate) /\ rd[w].ok
              /\ rd[w].DecryptedCredential # Rec(w).ActivationSecret) =>
              resp[w].status # StatusOK

(* C13: an attest request for a record whose nonce is empty is rejected    *)
(* and records no successful outcome.                                      *)
C13_NoNonceRejected ==
    \A w \in Workers :
        (Done(w, PathAttest) /\ rd[w].ok /\ Len(Rec(w).Nonce) = 0) =>
            /\ resp[w].status # StatusOK
            /\ ~Rec(w).AttestResults.Succeeded

(* C14: a successful outcome is recorded by an attest request only for a   *)
(* record that is activated when the request is served (stated for quotes  *)
(* judged against an issued, non-zero nonce).                              *)
C14_SuccessOnlyIfActivated ==
    \A w \in Workers :
        (/\ Done(w, PathAttest)
         /\ resp[w].status = StatusOK
         /\ Rec(w).Nonce \notin {<<>>, Zero(NonceLen)}
         /\ Rec(w).AttestResults.Succeeded) =>
            Rec(w).Activated

(* C16: no handler holds the registry lock while it reads and decodes the  *)
(* request body from the connection or while its response is being         *)
(* written.                                                                *)
C16_LockNotHeldAcrossIO ==
    \A w \in Workers :
        lock = w => pc[w] \notin {"unmarshalRequestBody", "Unlock"}

(* C20: a request carrying the blob A changes at most the record of A: the *)
(* record of every other blob keeps its position and all its fields, and   *)
(* no record is ever removed from the registry.                            *)
C20_OtherRecordsUntouched ==
    [][/\ Len(state') >= Len(state)
       /\ \A w \in Workers :
             (pc[w] = "unmarshalRequestBody" /\ pc'[w] = "Unlock") =>
                \A i \in 1..Len(state) :
                    (~rd'[w].ok \/ state[i].AIK.Public # rd'[w].AIK.Public) =>
                        state'[i] = state[i]]_vars

\* a request for the second blob has been served while the record of the
\* first blob, activated earlier, stands in the registry
C20_Witness ==
    \E w \in Workers :
        /\ Done(w, PathNonce)
        /\ rd[w].ok
        /\ Len(state) = 2
        /\ state[2].AIK.Public = rd[w].AIK.Public
        /\ Len(state[2].Nonce) = NonceLen
        /\ state[1].Activated

(* C15: the lookup or creation of a request's record and the assignments   *)
(* to it are one atomic step under the lock. With the handlers run         *)
(* statement by statement, a goroutine inside a handler body is the one    *)
(* holding the lock, no other goroutine changes the registry between a     *)
(* handler's lookup and its assignments, and the assignments leave the     *)
(* registry and the response exactly as the whole handler run at that      *)
(* instant would: in particular an activation that answers success has     *)
(* matched the secret the record holds.                                    *)
C15_MutualExclusion ==
    \A w \in Workers :
        pc[w] \in {"unmarshalRequestBody", "assign", "Unlock"} => lock = w

C15_AssignIsSerial ==
    \A w \in Workers :
        /\ (pc[w] = "assign" /\ pc'[w] = "assign") => state' = state
        /\ (pc[w] = "assign" /\ pc'[w] = "Unlock" /\ handler[w] = PathActivate) =>
              /\ state' = activateStep(state, rd[w]).state
              /\ resp'[w] = activateStep(state, rd[w]).resp
              /\ LET i == CHOOSE i \in Holding(state', rd[w].AIK.Public) : TRUE
                 IN /\ state'[i].Activated
                    /\ state'[i].ActivationSecret = rd[w].DecryptedCredential
        /\ (pc[w] = "assign" /\ pc'[w] = "Unlock" /\ handler[w] = PathChallenge) =>
              /\ state' = activationGetChallengeStep(state, rd[w], local[w].k).state
              /\ resp'[w] = activationGetChallengeStep(state, rd[w], local[w].k).resp

C15_HandlersAtomic == []C15_MutualExclusion /\ [][C15_AssignIsSerial]_vars

\* an activation has matched the secret and not yet set Activated while a
\* second request, which may ask for a new challenge, waits for the lock
C15_Witness ==
    \E w, v \in Workers :
        /\ pc[w] = "assign"
        /\ handler[w] = PathActivate
        /\ ~state[local[w].c].Activated
        /\ pc[v] = "Lock"

\* the manufacturer subtree NewEKVerifier was pointed at
Subtree == certsPath[1].entries[Len(certsPath[1].entries)]

\* the files NewEKVerifier lists under the subtree
SubtreeFiles ==
    {Subtree.RootCA.files[i] : i \in 1..Len(Subtree.RootCA.files)} \cup
    {Subtree.IntermediateCA.files[i] : i \in 1..Len(Subtree.IntermediateCA.files)}

\* a file named as a certificate
NamedCert(f) == ~f.IsDir /\ f.Ext \in {".der", ".crt", ".cer"}

(* C17: building the trust store fails when the manufacturer subtree has   *)
(* no RootCA directory or holds a certificate file whose bytes are no      *)
(* certificate, and succeeds when only the IntermediateCA directory is     *)
(* missing.                                                                *)
C17_TrustStoreConstruction ==
    (ekVerifier.built /\ certsPath[1].err = "") =>
        /\ Subtree.RootCA.err = "notexist" => ekVerifier.err
        /\ (\E f \in SubtreeFiles : NamedCert(f) /\ f.data = Junk) => ekVerifier.err
        /\ (/\ Subtree.IntermediateCA.err = "notexist"
            /\ Subtree.RootCA.err = ""
            /\ \A f \in SubtreeFiles : NamedCert(f) => (f.readable /\ f.data # Junk))
              => ~ekVerifier.err

\* the certificates of a pool
PoolCerts(pool) == {pool[i] : i \in 1..Len(pool)}

(* C18: for an endorsement certificate that parses, VerifyEKCert returns a *)
(* result whose Succeeded equals ChainVerified, and either the chain is    *)
(* verified, the error text is empty and the summary lists the resolved    *)
(* chain in order, from the certificate itself through valid certificates  *)
(* of the pools, each the issuer of the one before, to a root (the         *)
(* certificate alone when the roots hold it); or the chain is not          *)
(* verified, the error text is non-empty and the summary is empty.         *)
C18_ResultShape ==
    (ekOut.called /\ ParseCertificate(ekOut.certBytes).c # NilCert) =>
        LET r == ekOut.res
            c == ParseCertificate(ekOut.certBytes).c
            n == Len(r.Chain)
        IN /\ ekOut.outcome = "result"
           /\ r.Succeeded = r.ChainVerified
           /\ IF r.ChainVerified
              THEN /\ r.VerificationError = ""
                   /\ n >= 1
                   /\ r.Chain[1] = CertSummary(c)
                   /\ ~c.expired
                   /\ n = 1 <=> c \in PoolCerts(ekVerifier.roots)
                   /\ \A i \in 2..n :
                         \E parent \in PoolCerts(ekVerifier.roots)
                                       \cup PoolCerts(ekVerifier.intermediates) :
                             /\ ~parent.expired
                             /\ r.Chain[i] = CertSummary(parent)
                             /\ r.Chain[i - 1].IssuerCn = parent.subject
                             /\ i = n => parent \in PoolCerts(ekVerifier.roots)
              ELSE /\ r.VerificationError # ""
                   /\ r.Chain = <<>>

\* a certificate issued by the intermediate has been verified up to the root
C18_Witness ==
    /\ ekOut.called
    /\ ekOut.outcome = "result"
    /\ ekOut.res.ChainVerified
    /\ Len(ekOut.res.Chain) = 3
    /\ ekOut.res.Chain[3].Serial = "1"

(* C19: VerifyEKCert returns an error and no result exactly when the       *)
(* certificate fails to parse fatally, goes on to a result when the parse  *)
(* error is not fatal, and panics in neither case.                         *)
C19_FatalParseIsAnError ==
    ekOut.called =>
        LET err == ParseCertificate(ekOut.certBytes).err
        IN /\ ekOut.outcome # "panic"
           /\ ekOut.outcome = "error" <=> IsFatal(err)
           /\ ~IsFatal(err) => ekOut.outcome = "result"

(* C21: every handler releases the lock on every way out, so a goroutine   *)
(* that is idle or still waiting never holds the lock, the lock is taken   *)
(* exactly when one goroutine is inside a handler, and under fair          *)
(* scheduling every request waiting for the lock acquires it and is        *)
(* served to its end with the lock released.                               *)
C21_ReleasedOutsideHandlers ==
    /\ \A w \in Workers : pc[w] \in {"idle", "Lock"} => lock # w
    /\ Cardinality({w \in Workers : pc[w] \in {"unmarshalRequestBody", "Unlock"}})
          = IF lock = 0 THEN 0 ELSE 1

C21_LockAlwaysReleased ==
    /\ []C21_ReleasedOutsideHandlers
    /\ \A w \in Workers : (pc[w] = "Lock") ~> (lock = w)
    /\ \A w \in Workers : (pc[w] = "Lock") ~> (pc[w] = "idle" /\ lock # w)

====
